---- MODULE Spec2Model ----
(***************************************************************************)
(* EasyDeploy VS Code extension: the dashboard widget (widget.ts), the     *)
(* API client (client.ts) and the extension commands (extension.ts),       *)
(* running against the EasyDeploy server.                                  *)
(*                                                                         *)
(* Every awaited API call is a record in the bag `tasks': it is issued by  *)
(* the handler that makes the call ("sent"), answered by the server        *)
(* ("resp") and then resumed by the code after the await.  A call fails    *)
(* (error response, or no response at all) at either point.                *)
(***************************************************************************)
EXTENDS Integers, Sequences, FiniteSets, Bags, TLC

\* ------------------------------------------------------------- bounds
\* ids the server hands out (1..MaxDeploys)
MaxDeploys == 2
\* awaited calls, open prompts and pending timers at one time
MaxInFlight == 2
\* webview panels open at one time
MaxPanels == 2

\* ------------------------------------------------------------ strings
\* A raw status is a JavaScript string, kept as its sequence of character
\* codes so that toLowerCase is computed; a missing status is the empty
\* option {} and a present one the singleton {s}.
S_success == <<115,117,99,99,101,115,115>>
S_completed == <<99,111,109,112,108,101,116,101,100>>
S_done == <<100,111,110,101>>
S_failed == <<102,97,105,108,101,100>>
S_error == <<101,114,114,111,114>>
S_pending == <<112,101,110,100,105,110,103>>
\* "SUCCESS", "Failed", "queued": spellings a server may use
S_SUCCESS == <<83,85,67,67,69,83,83>>
S_Failed == <<70,97,105,108,101,100>>
S_queued == <<113,117,101,117,101,100>>
S_running == <<114,117,110,110,105,110,103>>
S_in_progress == <<105,110,95,112,114,111,103,114,101,115,115>>

\* a variant of LowerChar that leaves capitals as they are
LowerCharNone(c) == c

\* String.prototype.toLowerCase on ASCII
LowerChar(c) == IF c \in 65..90 THEN c + 32 ELSE c
ToLowerCase(s) == [i \in 1..Len(s) |-> LowerChar(s[i])]

\* the statuses the server of this model reports: a deployment is pending
\* until it ends, in success or in failure
TerminalStatuses == { {S_SUCCESS}, {S_Failed} }
RawStatuses == { {S_pending} } \cup TerminalStatuses

NoId == 0
Ids == 1..MaxDeploys

\* ----------------------------------------------------- configuration
\* easydeploy.yaml: missing, not parseable (yaml.load throws), empty
\* (yaml.load returns undefined) or a mapping with these top-level keys
File(kind, keys) == [kind |-> kind, keys |-> keys]

\* what the init command writes
InitConfig ==
    File("map", {"app_name", "environment", "framework", "region", "provider",
                 "resources", "environment_variables"})

\* what the widget's saveConfig writes
WidgetConfig ==
    File("map", {"name", "platform", "type", "region", "resources", "env"})

\* a hand-written file with every field the deploy request reads, and runtime
FullConfig ==
    File("map", {"name", "type", "platform", "region", "runtime", "resources", "env"})

\* the files a handler may find in the workspace folder: the file is written
\* by the init command, by the editors and by the user, at any time
ConfigFiles ==
    {File("missing", {}), File("garbled", {}), File("empty", {}),
     InitConfig, WidgetConfig, FullConfig}

\* ---------------------------------------------------------- variables
VARIABLES
    srv,              \* server: the ids of its deployments, most recent first
    srvStatus,        \* server: the status of each deployment
    nextId,           \* server: the next id it assigns
    _deployments,     \* widget: the tracked list
    _apiKey,          \* widget: "undefined" or the key
    _isLoggedIn,      \* widget
    _client,          \* widget: "undefined" or the key the client holds
    storedKey,        \* globalState 'easydeploy.apiKey'
    view,             \* the list last posted to the webview ('deployments')
    timers,           \* pending setTimeout(() => refreshDeployments(), 3000)
    notice,           \* the last message the dashboard showed (show...Message)
    lastDeploymentId, \* extension.ts: cache for deployment info
    settingsKey,      \* the setting easydeploy.apiKey
    output,           \* the last result a command wrote to its output channel
    _userInfo,        \* widget: "null" or the user data last stored
    _panel,           \* widget: its webview panel, "undefined", "open" or "disposed"
    currentPanel,     \* EasyDeployWidget.currentPanel: "undefined" or "widget"
    panels,           \* the webview panels 'EasyDeploy Dashboard' that are open
    client,           \* DeploymentProvider: "undefined" or the key its client holds
    children,         \* DeploymentProvider: what getChildren last returned for DEPLOYMENTS
    refreshInterval,  \* DeploymentProvider: its setInterval timer, "active" or "cleared"
    tasks             \* bag of awaited calls and open prompts

vars == <<srv, srvStatus, nextId, _deployments, _apiKey, _isLoggedIn, _client,
          storedKey, view, timers, notice, lastDeploymentId, settingsKey,
          output, _userInfo, _panel, currentPanel, panels, client, children,
          refreshInterval, tasks>>

srvVars == <<srv, srvStatus, nextId>>
loginVars == <<_apiKey, _isLoggedIn, _client, storedKey>>
widgetVars == <<_deployments, loginVars, view, timers, notice>>
cmdVars == <<lastDeploymentId, settingsKey, output>>
panelVars == <<_panel, currentPanel, panels>>
treeVars == <<client, children, refreshInterval>>
extVars == <<_userInfo, panelVars, treeVars>>

\* what getChildren returns for DEPLOYMENTS: one item with a label, or one
\* item for each deployment
Children(label, ids) == [label |-> label, ids |-> ids]

\* the widget constructed and shown (show()), the sidebar provider constructed
InitExt ==
    /\ _userInfo = "null"
    /\ _panel = "open"
    /\ currentPanel = "widget"
    /\ panels = 1
    /\ client = "undefined"
    /\ children = Children("none", <<>>)
    /\ refreshInterval = "active"

\* -------------------------------------------------------- JSON values
\* a JSON value as the client looks at it: its kind, and its elements when
\* it is an array ("empty" is the empty string, "zero" the number 0)
JVal(kind, items) == [kind |-> kind, items |-> items]
Undefined == JVal("undefined", <<>>)
Array(items) == JVal("array", items)

\* a response body: a JSON value, with its `deployments` property (undefined
\* for a body that is no object, or an object without it)
Body(kind, items, deployments) ==
    [kind |-> kind, items |-> items, deployments |-> deployments]

\* the two formats of a list response: {deployments: [...]} and [...]
Wrapped(items) == Body("object", <<>>, Array(items))
Bare(items) == Body("array", items, Undefined)

\* no body (yet)
NoBody == Body("undefined", <<>>, Undefined)

\* JavaScript truthiness: undefined, null, false, 0 and "" are falsy, every
\* array and object is truthy
Truthy(v) == v.kind \in {"array", "object", "string", "number", "true"}

\* ------------------------------------------------------------ helpers
\* op: the call; pc: "sent", "resp", or the prompt that is open; id: the id
\* the call is about; ask: the id a confirmation prompt named; rid: the id in
\* the response; data: the body of a list response; cfg: the fields of the
\* body of a deploy request
Task(op, pc, id) ==
    [op |-> op, pc |-> pc, id |-> id, ask |-> NoId, rid |-> NoId,
     data |-> NoBody, cfg |-> {}]

InFlight == BagCardinality(tasks) + timers
CanStart == InFlight < MaxInFlight

Put(t) == tasks (+) SetToBag({t})
Take(t) == tasks (-) SetToBag({t})
Swap(t, u) == (tasks (-) SetToBag({t})) (+) SetToBag({u})

SeqIds(s) == {s[i].id : i \in DOMAIN s}
Range(s) == {s[i] : i \in DOMAIN s}
Without(s, x) == SelectSeq(s, LAMBDA y : y # x)

\* the call has returned: with a response, or failed (an error response, or
\* no response) whether or not the server acted on it
Returned(t, failed) == t.pc = "resp" \/ (failed /\ t.pc = "sent")

\* ------------------------------------------------------------- server
\* one element of a list response: the server reports a status for the
\* deployment, and a url once it reports success
Summary(id, status) ==
    [id |-> id, status |-> status,
     url |-> IF status = {S_SUCCESS} THEN "url" ELSE "undefined"]

\* a deployment ends: its status goes from pending to a terminal one
SrvProgress(id, status) ==
    /\ id \in Range(srv)
    /\ srvStatus[id] = {S_pending}
    /\ srvStatus' = [srvStatus EXCEPT ![id] = status]
    /\ UNCHANGED <<srv, nextId, extVars, widgetVars, cmdVars, tasks>>

\* the deployments, most recent first, each with its status as it is now
Listing == [i \in DOMAIN srv |-> Summary(srv[i], srvStatus[srv[i]])]

\* the listing in the two formats of a list response
ListBodies == {Wrapped(Listing), Bare(Listing)}

\* bodies of neither format: null, an empty body (axios gives ""), a
\* string, a number, an object without `deployments`, and objects whose
\* `deployments` is no array (falsy: null, "", 0, false; truthy: a string, a
\* number, an object, true)
OddBodies ==
    {Body(k, <<>>, Undefined) : k \in {"null", "empty", "string", "number", "object"}}
        \cup {Body("object", <<>>, JVal(k, <<>>)) :
                 k \in {"null", "empty", "zero", "false",
                        "string", "number", "object", "true"}}

\* GET /deployments answered with this body
SrvList(t, body) ==
    /\ t.op \in {"list", "clist", "tlist"} /\ t.pc = "sent"
    /\ tasks' = Swap(t, [t EXCEPT !.pc = "resp", !.data = body])
    /\ UNCHANGED <<srvVars, extVars, widgetVars, cmdVars>>

\* POST /deployments and POST /deployments/{id}/redeploy: a new deployment
\* with a fresh id
SrvCreate(t) ==
    /\ t.op \in {"wdeploy", "wredeploy", "cdeploy"} /\ t.pc = "sent"
    /\ t.op = "wredeploy" => t.id \in Range(srv)
    /\ nextId <= MaxDeploys
    /\ srv' = <<nextId>> \o srv
    /\ nextId' = nextId + 1
    /\ tasks' = Swap(t, [t EXCEPT !.pc = "resp", !.rid = nextId, !.cfg = {}])
    /\ UNCHANGED <<srvStatus, extVars, widgetVars, cmdVars>>

\* GET /deployments/{id}
SrvStatus(t) ==
    /\ t.op = "status" /\ t.pc = "sent"
    /\ t.id \in Range(srv)
    /\ tasks' = Swap(t, [t EXCEPT !.pc = "resp", !.rid = t.id])
    /\ UNCHANGED <<srvVars, extVars, widgetVars, cmdVars>>

\* DELETE /deployments/{id}
SrvRemove(t) ==
    /\ t.op = "remove" /\ t.pc = "sent"
    /\ t.id \in Range(srv)
    /\ srv' = Without(srv, t.id)
    /\ tasks' = Swap(t, [t EXCEPT !.pc = "resp"])
    /\ UNCHANGED <<srvStatus, nextId, extVars, widgetVars, cmdVars>>

\* GET /deployments/{id}/logs
SrvLogs(t) ==
    /\ t.op = "logs" /\ t.pc = "sent"
    /\ t.id \in Range(srv)
    /\ tasks' = Swap(t, [t EXCEPT !.pc = "resp"])
    /\ UNCHANGED <<srvVars, extVars, widgetVars, cmdVars>>

\* GET /health
SrvHealth(t) ==
    /\ t.op = "health" /\ t.pc = "sent"
    /\ tasks' = Swap(t, [t EXCEPT !.pc = "resp"])
    /\ UNCHANGED <<srvVars, extVars, widgetVars, cmdVars>>

\* GET /user: user data with a user_id, or without one
SrvUser(t, ok) ==
    /\ t.op \in {"login", "user"} /\ t.pc = "sent"
    /\ tasks' = Swap(t, [t EXCEPT !.pc = "resp", !.rid = IF ok THEN 1 ELSE NoId])
    /\ UNCHANGED <<srvVars, extVars, widgetVars, cmdVars>>

\* ------------------------------------------------------------- client
\* client.deploy up to the request: readFileSync and yaml.load succeed and
\* the loaded configuration is not falsy
LoadsConfig(file) == file.kind = "map"

\* client.deploy: the fields of deployData that are not undefined
DeployData(file) ==
    {k \in {"name", "type", "platform", "region", "resources"} : k \in file.keys}
        \cup {"env_vars"}

\* what client.deploy, client.redeploy and client.remove return
Result(success, id) == [success |-> success, deployment_id |-> id]

\* client.deploy: {success: true, deployment_id: response.data.id}, or the
\* catch block's {success: false, error}
ClientDeploy(t, failed) ==
    IF failed THEN Result(FALSE, NoId) ELSE Result(TRUE, t.rid)

\* client.redeploy: {success: true, deployment_id: response.data.deployment_id},
\* or the catch block's {success: false, error}
ClientRedeploy(t, failed) ==
    IF failed THEN Result(FALSE, NoId) ELSE Result(TRUE, t.rid)

\* client.remove: {success: true, message}, or the catch block's
\* {success: false, error}
ClientRemove(t, failed) == Result(~failed, NoId)

\* what axios rejects a request with: an error response with its status
\* code (error.response), no response (error.request only), or a request
\* that could not be set up
HttpError(status) == [kind |-> "response", status |-> status]
NoResponse == [kind |-> "request", status |-> "none"]
SetupError == [kind |-> "setup", status |-> "none"]
Failures == {HttpError(status) : status \in {"401", "403", "404", "500"}}
               \cup {NoResponse, SetupError}

\* error.message of an axios rejection, as the parts it is made of: axios
\* words an error response by its status code
AxiosMessage(e) ==
    CASE e.kind = "response" -> <<"Request failed with status code ", e.status>>
      [] e.kind = "request" -> <<"Network Error">>
      [] e.kind = "setup" -> <<"Invalid URL">>

\* a variant of GetStatusError that has one message for every failure
GetStatusErrorPlain(e) == <<"Failed to get deployment status">>

\* client.getStatus: the message of the Error its catch block throws
GetStatusError(e) ==
    IF AxiosMessage(e) # <<>> THEN AxiosMessage(e)
    ELSE <<"Failed to get deployment status">>

\* client.listDeployments: the message of the Error its catch block throws
ListError(e) ==
    CASE e.kind = "response" -> <<"API error: ", e.status>>
      [] e.kind = "request" -> <<"No response received from API server">>
      [] OTHER -> IF AxiosMessage(e) # <<>> THEN AxiosMessage(e)
                  ELSE <<"Failed to list deployments">>

\* what a client call gives its caller: a value, or an exception
\* a 2xx response, and what an awaited request can end with
OkResponse == [kind |-> "ok", status |-> "200"]
Outcomes == {OkResponse} \cup Failures

\* the timeout option a call passes to axios: an empty set when it passes none
Timeout(op) == IF op = "health" THEN {10000} ELSE {}

\* a variant of TestConnection that takes any response for a success
TestConnectionAnyResponse(outcome) ==
    [throws |-> FALSE,
     success |-> outcome.kind \in {"ok", "response"},
     message |-> <<"Connected successfully to ", "baseUrl">>]

\* EasyDeployClient.testConnection, by what the health request ended with
TestConnection(outcome) ==
    [throws |-> FALSE,
     success |-> outcome.kind = "ok",
     message |->
        CASE outcome.kind = "ok" -> <<"Connected successfully to ", "baseUrl">>
          [] outcome.kind = "response" -> <<"API responded with status ", outcome.status>>
          [] outcome.kind = "request" -> <<"No response from server at ", "baseUrl">>
          [] OTHER -> <<"Connection error: ">> \o AxiosMessage(outcome)]

Ok(value) == [throws |-> FALSE, value |-> value]
Throws == [throws |-> TRUE, value |-> Undefined]

\* a variant of ListDeployments that reads only an array body
ListDeploymentsBareOnly(body) ==
    IF body.kind = "array" THEN Ok(Array(body.items)) ELSE Ok(Array(<<>>))

\* client.listDeployments on a response with this body: a truthy
\* `deployments` property is returned as it is, else an array body is
\* returned, else []; reading the property of null throws, and the catch
\* block throws again
ListDeployments(body) ==
    IF body.kind \in {"null", "undefined"} THEN Throws
    ELSE IF Truthy(body.deployments) THEN Ok(body.deployments)
    ELSE IF body.kind = "array" THEN Ok(Array(body.items))
    ELSE Ok(Array(<<>>))

\* ----------------------------------------------------- widget: tracking
\* a variant of mapStatus whose default case is 'failed'
mapStatusStrict(status) ==
    IF status = {} THEN "failed"
    ELSE LET s == ToLowerCase(CHOOSE x \in status : TRUE) IN
         IF s \in {S_success, S_completed, S_done} THEN "completed"
         ELSE "failed"

\* Map API status to our status types
mapStatus(status) ==
    IF status = {} THEN "in_progress"
    ELSE LET s == ToLowerCase(CHOOSE x \in status : TRUE) IN
         IF s \in {S_success, S_completed, S_done} THEN "completed"
         ELSE IF s \in {S_failed, S_error} THEN "failed"
         ELSE "in_progress"

\* the record refreshDeployments builds from one element of the response
MapDeployment(d) ==
    [id |-> d.id, name |-> "server", status |-> mapStatus(d.status), url |-> d.url]

\* refreshDeployments: this._deployments = deployments.map(d => ({...}))
Reconcile(deps, ds) == [i \in DOMAIN ds |-> MapDeployment(ds[i])]

\* a variant of Unshift that adds the record at the end (push)
UnshiftAtEnd(deps, id, name) ==
    deps \o <<[id |-> id, name |-> name, status |-> "in_progress", url |-> "undefined"]>>

\* this._deployments.unshift({id, name, status: 'in_progress'})
Unshift(deps, id, name) ==
    <<[id |-> id, name |-> name, status |-> "in_progress", url |-> "undefined"]>> \o deps

\* the message of the error `this._panel.webview` throws once the panel is
\* disposed, behind the prefix of the catch block that shows it
Disposed(prefix) == <<prefix, "Webview is disposed">>

\* refreshDeployments up to the listDeployments call: without a client it
\* calls initClient, which makes one (and fetches the user info) when _apiKey
\* is set
RefreshDeployments ==
    IF _client # "undefined"
    THEN /\ tasks' = Put(Task("list", "sent", NoId))
         /\ UNCHANGED <<_client, notice>>
    ELSE IF _apiKey # "undefined"
    THEN /\ _client' = _apiKey
         /\ tasks' = Put(Task("list", "sent", NoId)) (+) SetToBag({Task("user", "sent", NoId)})
         /\ UNCHANGED notice
    ELSE /\ notice' = <<"Unable to initialize API client. Please check your API key.">>
         /\ UNCHANGED <<_client, tasks>>

\* message 'refresh'
MsgRefresh ==
    /\ _panel = "open"
    /\ CanStart
    /\ RefreshDeployments
    /\ UNCHANGED <<srvVars, extVars, _deployments, _apiKey, _isLoggedIn, storedKey,
                   view, timers, cmdVars>>

\* the delayed refresh scheduled after a deploy or redeploy
TimerFires ==
    /\ timers > 0
    /\ timers' = timers - 1
    /\ RefreshDeployments
    /\ UNCHANGED <<srvVars, extVars, _deployments, _apiKey, _isLoggedIn, storedKey,
                   view, cmdVars>>

\* refreshDeployments resumed after `await this._client.listDeployments()`:
\* the call failed or threw, or `deployments.map` throws on what is no array,
\* or the list is replaced
ListDone(t, failed) ==
    /\ t.op = "list"
    /\ Returned(t, failed)
    /\ LET deployments == ListDeployments(t.data) IN
       IF failed \/ deployments.throws \/ deployments.value.kind # "array"
       THEN /\ notice' = <<"Failed to fetch deployments: ">>
            /\ UNCHANGED <<_deployments, view>>
       ELSE /\ _deployments' = Reconcile(_deployments, deployments.value.items)
            /\ IF _panel = "disposed"
               THEN /\ notice' = Disposed("Failed to fetch deployments: ")
                    /\ UNCHANGED view
               ELSE /\ view' = _deployments'
                    /\ UNCHANGED notice
    /\ tasks' = Take(t)
    /\ UNCHANGED <<srvVars, extVars, loginVars, timers, cmdVars>>

\* startNewDeployment after client.deploy returned: the tracked list
DeployInsert(deps, result) ==
    IF result.success THEN Unshift(deps, result.deployment_id, "new") ELSE deps

\* a variant of AfterDeploy that schedules the delayed refresh whatever the
\* result
AfterDeployAlways(result) ==
    /\ _deployments' = DeployInsert(_deployments, result)
    /\ notice' = IF result.success THEN <<"Deployment started: ">>
                 ELSE <<"Deployment failed: ">>
    /\ view' = IF result.success THEN _deployments' ELSE view
    /\ timers' = timers + 1

\* startNewDeployment after client.deploy returned
AfterDeploy(result) ==
    /\ _deployments' = DeployInsert(_deployments, result)
    /\ IF result.success /\ _panel = "disposed"
       THEN /\ notice' = Disposed("Deployment error: ")
            /\ UNCHANGED <<view, timers>>
       ELSE IF result.success
       THEN /\ notice' = <<"Deployment started: ">>
            /\ view' = _deployments'
            /\ timers' = timers + 1
       ELSE /\ notice' = <<"Deployment failed: ">>
            /\ UNCHANGED <<view, timers>>

\* message 'deploy': startNewDeployment up to the POST (the workspace folder
\* is open); cfgFile is easydeploy.yaml as the handler finds it
MsgDeploy(cfgFile) ==
    /\ _panel = "open"
    /\ CanStart
    /\ IF _client = "undefined" \/ cfgFile.kind = "missing"
       THEN UNCHANGED <<_deployments, view, timers, notice, tasks>>
       ELSE IF ~LoadsConfig(cfgFile)
       THEN /\ AfterDeploy(Result(FALSE, NoId))
            /\ UNCHANGED tasks
       ELSE /\ tasks' = Put([Task("wdeploy", "sent", NoId) EXCEPT !.cfg = DeployData(cfgFile)])
            /\ UNCHANGED <<_deployments, view, timers, notice>>
    /\ UNCHANGED <<srvVars, extVars, loginVars, cmdVars>>

\* startNewDeployment resumed after `await this._client.deploy(configPath)`
WDeployDone(t, failed) ==
    /\ t.op = "wdeploy"
    /\ Returned(t, failed)
    /\ AfterDeploy(ClientDeploy(t, failed))
    /\ tasks' = Take(t)
    /\ UNCHANGED <<srvVars, extVars, loginVars, cmdVars>>

\* a variant of RedeployInsert that puts the new record in the place of the
\* first one
RedeployReplace(deps, result) ==
    IF result.success /\ result.deployment_id # NoId
    THEN Unshift(IF deps = <<>> THEN deps ELSE Tail(deps), result.deployment_id,
                 "redeployment")
    ELSE deps

\* redeployApplication after client.redeploy returned: the tracked list
RedeployInsert(deps, result) ==
    IF result.success /\ result.deployment_id # NoId
    THEN Unshift(deps, result.deployment_id, "redeployment")
    ELSE deps

\* message 'redeploy' with the id of a deployment the webview shows
MsgRedeploy(x) ==
    /\ _panel = "open"
    /\ CanStart
    /\ x \in SeqIds(view)
    /\ IF _client = "undefined"
       THEN UNCHANGED tasks
       ELSE tasks' = Put(Task("wredeploy", "sent", x))
    /\ UNCHANGED <<srvVars, extVars, widgetVars, cmdVars>>

\* redeployApplication resumed after `await this._client.redeploy(deploymentId)`
WRedeployDone(t, failed) ==
    /\ t.op = "wredeploy"
    /\ Returned(t, failed)
    /\ LET result == ClientRedeploy(t, failed) IN
       /\ _deployments' = RedeployInsert(_deployments, result)
       /\ IF result.success /\ result.deployment_id # NoId /\ _panel = "disposed"
          THEN /\ notice' = Disposed("Redeployment error: ")
               /\ UNCHANGED <<view, timers>>
          ELSE IF result.success /\ result.deployment_id # NoId
          THEN /\ notice' = <<"Redeployment started: ">>
               /\ view' = _deployments'
               /\ timers' = timers + 1
          ELSE /\ notice' = <<"Redeployment failed: ">>
               /\ UNCHANGED <<view, timers>>
    /\ tasks' = Take(t)
    /\ UNCHANGED <<srvVars, extVars, loginVars, cmdVars>>

\* --------------------------------------------- widget: login, logout
\* message 'login'
MsgLogin(apiKey) ==
    /\ _panel = "open"
    /\ CanStart
    /\ IF apiKey = ""
       THEN /\ notice' = <<"Please enter a valid API key">>
            /\ UNCHANGED tasks
       ELSE /\ tasks' = Put(Task("login", "sent", NoId))
            /\ UNCHANGED notice
    /\ UNCHANGED <<srvVars, extVars, _deployments, loginVars, view, timers, cmdVars>>

\* a variant of LoginDone that takes any response for a login
LoginDoneAnyResponse(t, failed) ==
    /\ t.op = "login"
    /\ Returned(t, failed)
    /\ IF ~failed
       THEN /\ _apiKey' = "key"
            /\ _isLoggedIn' = TRUE
            /\ _client' = "key"
            /\ _userInfo' = "user"
            /\ storedKey' = "key"
            /\ IF _panel = "disposed"
               THEN /\ tasks' = Take(t)
                    /\ notice' = Disposed("Login failed: ")
               ELSE /\ tasks' = Swap(t, Task("list", "sent", NoId))
                    /\ notice' = <<"Logged in as ">>
       ELSE /\ tasks' = Take(t)
            /\ notice' = <<"Login failed: ">>
            /\ UNCHANGED <<loginVars, _userInfo>>
    /\ UNCHANGED <<srvVars, panelVars, treeVars, _deployments, view, timers, cmdVars>>

\* handleLogin resumed after `await tempClient.getUserInfo()`; rid is the
\* user_id of the response.  After a login, refreshDeployments (fetchDomains
\* touches nothing kept here); setting the html of a disposed panel throws
LoginDone(t, failed) ==
    /\ t.op = "login"
    /\ Returned(t, failed)
    /\ IF ~failed /\ t.rid # NoId
       THEN /\ _apiKey' = "key"
            /\ _isLoggedIn' = TRUE
            /\ _client' = "key"
            /\ _userInfo' = "user"
            /\ storedKey' = "key"
            /\ IF _panel = "disposed"
               THEN /\ tasks' = Take(t)
                    /\ notice' = Disposed("Login failed: ")
               ELSE /\ tasks' = Swap(t, Task("list", "sent", NoId))
                    /\ notice' = <<"Logged in as ">>
       ELSE /\ tasks' = Take(t)
            /\ notice' = IF failed THEN <<"Login failed: ">>
                         ELSE <<"Invalid API key or authentication failed">>
            /\ UNCHANGED <<loginVars, _userInfo>>
    /\ UNCHANGED <<srvVars, panelVars, treeVars, _deployments, view, timers, cmdVars>>

\* a variant of MsgLogout that keeps the client
MsgLogoutKeepsClient ==
    /\ _panel = "open"
    /\ _apiKey' = "undefined"
    /\ _isLoggedIn' = FALSE
    /\ _userInfo' = "null"
    /\ _deployments' = <<>>
    /\ storedKey' = "undefined"
    /\ notice' = <<"Successfully logged out">>
    /\ UNCHANGED <<srvVars, panelVars, treeVars, _client, view, timers, cmdVars, tasks>>

\* message 'logout'
MsgLogout ==
    /\ _panel = "open"
    /\ _apiKey' = "undefined"
    /\ _isLoggedIn' = FALSE
    /\ _client' = "undefined"
    /\ _userInfo' = "null"
    /\ _deployments' = <<>>
    /\ storedKey' = "undefined"
    /\ notice' = <<"Successfully logged out">>
    /\ UNCHANGED <<srvVars, panelVars, treeVars, view, timers, cmdVars, tasks>>

\* the panel becomes visible (onDidChangeViewState): the html is set again
\* and, when logged in, the list is posted and the user info fetched
ViewStateChanged ==
    /\ _panel = "open"
    /\ CanStart
    /\ IF _isLoggedIn
       THEN /\ view' = _deployments
            /\ tasks' = IF _client = "undefined" THEN tasks
                        ELSE Put(Task("user", "sent", NoId))
       ELSE UNCHANGED <<view, tasks>>
    /\ UNCHANGED <<srvVars, extVars, _deployments, loginVars, timers, notice, cmdVars>>

\* fetchUserInfo resumed after `await this._client.getUserInfo()`: the data
\* is kept whatever it holds; the catch block only logs to the console
UserDone(t, failed) ==
    /\ t.op = "user"
    /\ Returned(t, failed)
    /\ _userInfo' = IF failed THEN _userInfo
                    ELSE IF t.rid # NoId THEN "user" ELSE "nouser"
    /\ tasks' = Take(t)
    /\ UNCHANGED <<srvVars, panelVars, treeVars, widgetVars, cmdVars>>

\* ------------------------------------------------------ widget: panel
\* EasyDeployWidget.createOrShow (command easydeploy.openWidget): with a
\* current panel it reveals it; otherwise it creates a webview panel and
\* constructs a widget from `{extensionPath}`, whose constructor throws on
\* context.globalState.get: currentPanel is not assigned and the panel is
\* not initialized
CreateOrShow ==
    /\ currentPanel = "undefined"
    /\ panels < MaxPanels
    /\ panels' = panels + 1
    /\ UNCHANGED <<srvVars, _userInfo, _panel, currentPanel, treeVars, widgetVars,
                   cmdVars, tasks>>

\* EasyDeployWidget.show of the widget made in activate(): with a current
\* panel it reveals it; otherwise it creates a panel, initializes it (a
\* refresh when logged in) and registers the widget as currentPanel
Show ==
    /\ currentPanel = "undefined"
    /\ panels < MaxPanels
    /\ CanStart
    /\ panels' = panels + 1
    /\ _panel' = "open"
    /\ currentPanel' = "widget"
    /\ IF _isLoggedIn
       THEN RefreshDeployments
       ELSE UNCHANGED <<_client, tasks, notice>>
    /\ UNCHANGED <<srvVars, _userInfo, treeVars, _deployments, _apiKey, _isLoggedIn,
                   storedKey, view, timers, cmdVars>>

\* the user closes the widget's panel: onDidDispose runs dispose(), which
\* clears currentPanel and leaves _panel as it is, a disposed panel
PanelClosed ==
    /\ _panel = "open"
    /\ _panel' = "disposed"
    /\ currentPanel' = "undefined"
    /\ panels' = panels - 1
    /\ UNCHANGED <<srvVars, _userInfo, treeVars, widgetVars, cmdVars, tasks>>

\* the user closes a panel that createOrShow created and left without a
\* widget: nothing listens
OrphanClosed ==
    /\ panels > (IF _panel = "open" THEN 1 ELSE 0)
    /\ panels' = panels - 1
    /\ UNCHANGED <<srvVars, _userInfo, _panel, currentPanel, treeVars, widgetVars,
                   cmdVars, tasks>>

\* ----------------------------------------------------------- commands
\* a variant of DeployCache that does not look at result.success
DeployCacheAlways(last, result) == result.deployment_id

\* easydeploy.deploy after client.deploy returned: the cached id
DeployCache(last, result) ==
    IF result.success THEN result.deployment_id ELSE last

\* easydeploy.deploy after client.deploy returned: the line written to the
\* output channel
DeployLine(result) ==
    IF result.success THEN <<"Deployment started successfully">>
    ELSE <<"Deployment failed">>

\* easydeploy.remove after client.remove returned: the line written to the
\* output channel
RemoveLine(result) ==
    IF result.success THEN <<"Deployment removed successfully">>
    ELSE <<"Failed to remove deployment">>

\* easydeploy.remove after client.remove returned: the cached id
RemoveCache(last, result) ==
    IF result.success THEN NoId ELSE last

\* a variant of StatusCache that caches the last listed id
StatusCacheLast(last, deployments) ==
    IF deployments.kind = "array" /\ Len(deployments.items) > 0
    THEN deployments.items[Len(deployments.items)].id
    ELSE last

\* easydeploy.status after listDeployments returned: the cached id.  An
\* array's first element gives the id; a string has a length and a first
\* character, whose id is undefined; anything else has no slice, which throws
StatusCache(last, deployments) ==
    CASE deployments.kind = "array" ->
            IF Len(deployments.items) > 0 THEN deployments.items[1].id ELSE last
      [] deployments.kind = "string" -> NoId
      [] OTHER -> last

\* easydeploy.deploy from `client.deploy(configPath)` on: the POST, unless
\* the configuration does not load
DeployCall(bag, cfgFile) ==
    IF LoadsConfig(cfgFile)
    THEN bag (+) SetToBag({[Task("cdeploy", "sent", NoId) EXCEPT !.cfg = DeployData(cfgFile)]})
    ELSE bag

\* easydeploy.status from `if (lastDeploymentId)` on
StatusCall(bag) ==
    bag (+) SetToBag({IF lastDeploymentId # NoId
                      THEN Task("status", "sent", lastDeploymentId)
                      ELSE Task("clist", "sent", NoId)})

\* easydeploy.remove from `if (!lastDeploymentId)` on: the confirmation
\* prompt, which names lastDeploymentId
RemoveAsk(bag) ==
    IF lastDeploymentId = NoId
    THEN bag
    ELSE bag (+) SetToBag({[Task("remove", "confirm", NoId) EXCEPT !.ask = lastDeploymentId]})

\* a command once the API key is set
Continue(op, bag, cfgFile) ==
    CASE op = "cdeploy" -> DeployCall(bag, cfgFile)
      [] op = "status" -> StatusCall(bag)
      [] op = "remove" -> RemoveAsk(bag)

\* a variant of Start that goes on without a key
StartWithoutKey(op, cfgFile) ==
    /\ CanStart
    /\ tasks' = Continue(op, tasks, cfgFile)
    /\ IF op = "cdeploy" /\ ~LoadsConfig(cfgFile)
       THEN /\ lastDeploymentId' = DeployCache(lastDeploymentId, Result(FALSE, NoId))
            /\ output' = DeployLine(Result(FALSE, NoId))
       ELSE UNCHANGED <<lastDeploymentId, output>>
    /\ UNCHANGED <<srvVars, extVars, widgetVars, settingsKey>>

\* a command up to its first await: it prompts for the API key when the
\* setting is empty
Start(op, cfgFile) ==
    /\ CanStart
    /\ tasks' = IF settingsKey = "undefined"
                THEN Put(Task(op, "keyPrompt", NoId))
                ELSE Continue(op, tasks, cfgFile)
    /\ IF op = "cdeploy" /\ settingsKey # "undefined" /\ ~LoadsConfig(cfgFile)
       THEN /\ lastDeploymentId' = DeployCache(lastDeploymentId, Result(FALSE, NoId))
            /\ output' = DeployLine(Result(FALSE, NoId))
       ELSE UNCHANGED <<lastDeploymentId, output>>
    /\ UNCHANGED <<srvVars, extVars, widgetVars, settingsKey>>

\* command easydeploy.deploy (the workspace folder is open); without
\* easydeploy.yaml it offers to create one and returns
CmdDeploy(cfgFile) ==
    IF cfgFile.kind = "missing"
    THEN CanStart /\ UNCHANGED vars
    ELSE Start("cdeploy", cfgFile)

\* command easydeploy.status
CmdStatus == Start("status", File("missing", {}))

\* command easydeploy.remove
CmdRemove == Start("remove", File("missing", {}))

\* what a command writes when its API key prompt is dismissed
CancelLine(op) ==
    CASE op = "cdeploy" -> <<"Deployment cancelled: No API key provided">>
      [] op = "status" -> <<"Status check cancelled: No API key provided">>
      [] op = "remove" -> <<"Operation cancelled: No API key provided">>

\* the API key prompt is answered: with a key, which is saved to the
\* settings, or dismissed
KeyPromptDone(t, entered, cfgFile) ==
    /\ t.pc = "keyPrompt"
    /\ IF entered
       THEN /\ settingsKey' = "key"
            /\ tasks' = Continue(t.op, Take(t), cfgFile)
       ELSE /\ tasks' = Take(t)
            /\ UNCHANGED settingsKey
    /\ IF entered /\ t.op = "cdeploy" /\ ~LoadsConfig(cfgFile)
       THEN /\ lastDeploymentId' = DeployCache(lastDeploymentId, Result(FALSE, NoId))
            /\ output' = DeployLine(Result(FALSE, NoId))
       ELSE /\ output' = IF entered THEN output ELSE CancelLine(t.op)
            /\ UNCHANGED lastDeploymentId
    /\ UNCHANGED <<srvVars, extVars, widgetVars>>

\* easydeploy.deploy resumed after `await client.deploy(configPath)`
CDeployDone(t, failed) ==
    /\ t.op = "cdeploy"
    /\ Returned(t, failed)
    /\ lastDeploymentId' = DeployCache(lastDeploymentId, ClientDeploy(t, failed))
    /\ output' = DeployLine(ClientDeploy(t, failed))
    /\ tasks' = Take(t)
    /\ UNCHANGED <<srvVars, extVars, widgetVars, settingsKey>>

\* easydeploy.status: the line of its catch block
StatusError(message) == <<"Error checking status: ">> \o message

\* easydeploy.status resumed after `await client.getStatus(lastDeploymentId)`
StatusDone(t, failed) ==
    /\ t.op = "status"
    /\ Returned(t, failed)
    /\ IF failed
       THEN \E e \in Failures : output' = StatusError(GetStatusError(e))
       ELSE output' = <<"Most recent deployment:">>
    /\ tasks' = Take(t)
    /\ UNCHANGED <<srvVars, extVars, widgetVars, lastDeploymentId, settingsKey>>

\* easydeploy.status after listDeployments returned: what it writes last
StatusLines(deployments) ==
    CASE deployments.kind = "array" ->
            IF Len(deployments.items) = 0 THEN <<"No deployments found">>
            ELSE <<"Recent deployments:">>
      [] deployments.kind = "string" -> <<"Recent deployments:">>
      [] OTHER -> StatusError(<<"deployments.slice is not a function">>)

\* easydeploy.status resumed after `await client.listDeployments()`
CListDone(t, failed) ==
    /\ t.op = "clist"
    /\ Returned(t, failed)
    /\ LET deployments == ListDeployments(t.data) IN
       IF failed
       THEN /\ \E e \in Failures : output' = StatusError(ListError(e))
            /\ UNCHANGED lastDeploymentId
       ELSE IF deployments.throws
       THEN /\ output' = StatusError(<<"Cannot read properties of null">>)
            /\ UNCHANGED lastDeploymentId
       ELSE /\ lastDeploymentId' = StatusCache(lastDeploymentId, deployments.value)
            /\ output' = StatusLines(deployments.value)
    /\ tasks' = Take(t)
    /\ UNCHANGED <<srvVars, extVars, widgetVars, settingsKey>>

\* a variant of LogsTarget that prefers the cached id
LogsTargetCached(jobId, last) == IF last # NoId THEN last ELSE jobId

\* easydeploy.logs: const targetId = jobId || lastDeploymentId
LogsTarget(jobId, last) == IF jobId # NoId THEN jobId ELSE last

\* easydeploy.logs: what it writes when there is no target
NoTargetLine == <<"No deployment ID available. Please deploy first or select a specific deployment.">>

\* easydeploy.logs from `const targetId = ...` on: the getLogs call, unless
\* there is no target
LogsCall(bag, jobId) ==
    IF LogsTarget(jobId, lastDeploymentId) = NoId
    THEN bag
    ELSE bag (+) SetToBag({Task("logs", "sent", LogsTarget(jobId, lastDeploymentId))})

\* easydeploy.logs from `const targetId = ...` on: what it writes
LogsLine(jobId) ==
    IF LogsTarget(jobId, lastDeploymentId) = NoId THEN NoTargetLine ELSE output

\* command easydeploy.logs, with a job id or without one (NoId); it prompts
\* for the API key when the setting is empty
CmdLogs(jobId) ==
    /\ CanStart
    /\ IF settingsKey = "undefined"
       THEN /\ tasks' = Put(Task("logs", "logsKeyPrompt", jobId))
            /\ UNCHANGED output
       ELSE /\ tasks' = LogsCall(tasks, jobId)
            /\ output' = LogsLine(jobId)
    /\ UNCHANGED <<srvVars, extVars, widgetVars, lastDeploymentId, settingsKey>>

\* easydeploy.logs once its API key prompt is answered
LogsKeyPromptDone(t, entered) ==
    /\ t.pc = "logsKeyPrompt"
    /\ IF entered
       THEN /\ settingsKey' = "key"
            /\ tasks' = LogsCall(Take(t), t.id)
            /\ output' = LogsLine(t.id)
       ELSE /\ tasks' = Take(t)
            /\ output' = <<"Logs retrieval cancelled: No API key provided">>
            /\ UNCHANGED settingsKey
    /\ UNCHANGED <<srvVars, extVars, widgetVars, lastDeploymentId>>

\* easydeploy.logs resumed after `await client.getLogs(targetId)`
LogsDone(t, failed) ==
    /\ t.op = "logs"
    /\ Returned(t, failed)
    /\ output' = IF failed THEN <<"Error fetching logs: ">>
                 ELSE <<"Logs for deployment">>
    /\ tasks' = Take(t)
    /\ UNCHANGED <<srvVars, extVars, widgetVars, lastDeploymentId, settingsKey>>

\* easydeploy.testConnection: the line that reports the result
HealthLine(result) ==
    IF result.throws THEN <<"Error testing connection: ">>
    ELSE IF result.success THEN <<"Connection successful: ">> \o result.message
    ELSE <<"Connection failed: ">> \o result.message

\* command easydeploy.testConnection; it prompts for the API key when the
\* setting is empty
CmdTestConnection ==
    /\ CanStart
    /\ tasks' = Put(Task("health",
                         IF settingsKey = "undefined" THEN "healthKeyPrompt" ELSE "sent",
                         NoId))
    /\ UNCHANGED <<srvVars, extVars, widgetVars, cmdVars>>

\* easydeploy.testConnection once its API key prompt is answered
HealthKeyPromptDone(t, entered) ==
    /\ t.pc = "healthKeyPrompt"
    /\ IF entered
       THEN /\ settingsKey' = "key"
            /\ tasks' = Swap(t, Task("health", "sent", NoId))
            /\ UNCHANGED output
       ELSE /\ tasks' = Take(t)
            /\ output' = <<"Connection test cancelled: No API key provided">>
            /\ UNCHANGED settingsKey
    /\ UNCHANGED <<srvVars, extVars, widgetVars, lastDeploymentId>>

\* easydeploy.testConnection resumed after `await client.testConnection()`
HealthDone(t, outcome) ==
    /\ t.op = "health"
    /\ Returned(t, outcome # OkResponse)
    /\ output' = HealthLine(TestConnection(outcome))
    /\ tasks' = Take(t)
    /\ UNCHANGED <<srvVars, extVars, widgetVars, lastDeploymentId, settingsKey>>

\* ------------------------------------------------- sidebar provider
\* DeploymentProvider.getChildren for DEPLOYMENTS up to its await: the client
\* is made when there is none and the setting holds a key; without a key it
\* returns one item and calls nothing
GetChildren ==
    IF client = "undefined" /\ settingsKey = "undefined"
    THEN /\ children' = Children("API key not set", <<>>)
         /\ UNCHANGED <<client, tasks>>
    ELSE /\ client' = "key"
         /\ tasks' = Put(Task("tlist", "sent", NoId))
         /\ UNCHANGED children

\* the tree view asks for the children of DEPLOYMENTS: when it is shown or
\* expanded, or after refresh() fired onDidChangeTreeData
TreeAsks ==
    /\ CanStart
    /\ GetChildren
    /\ UNCHANGED <<srvVars, _userInfo, panelVars, refreshInterval, widgetVars, cmdVars>>

\* a variant of IntervalFires for a timer that clearInterval does not stop
IntervalFiresAlways ==
    /\ CanStart
    /\ GetChildren
    /\ UNCHANGED <<srvVars, _userInfo, panelVars, refreshInterval, widgetVars, cmdVars>>

\* the setInterval timer of startAutoRefresh fires: refresh(), and the tree
\* view asks again
IntervalFires ==
    /\ refreshInterval = "active"
    /\ CanStart
    /\ GetChildren
    /\ UNCHANGED <<srvVars, _userInfo, panelVars, refreshInterval, widgetVars, cmdVars>>

\* DeploymentProvider.dispose (the provider is in context.subscriptions)
ProviderDispose ==
    /\ refreshInterval' = "cleared"
    /\ UNCHANGED <<srvVars, _userInfo, panelVars, client, children, widgetVars,
                   cmdVars, tasks>>

\* getChildren after listDeployments returned: the items
TreeItems(deployments) ==
    IF deployments.kind # "array" THEN Children("Error fetching deployments", <<>>)
    ELSE IF Len(deployments.items) = 0 THEN Children("No deployments found", <<>>)
    ELSE Children("deployments", [i \in DOMAIN deployments.items |-> deployments.items[i].id])

\* getChildren resumed after `await this.client.listDeployments()`
TreeListDone(t, failed) ==
    /\ t.op = "tlist"
    /\ Returned(t, failed)
    /\ children' = IF failed \/ ListDeployments(t.data).throws
                   THEN Children("Error fetching deployments", <<>>)
                   ELSE TreeItems(ListDeployments(t.data).value)
    /\ tasks' = Take(t)
    /\ UNCHANGED <<srvVars, _userInfo, panelVars, client, refreshInterval,
                   widgetVars, cmdVars>>

\* the answers showWarningMessage resolves to: a button, or undefined when
\* the prompt is dismissed
Answers == {"Yes", "No", "undefined"}

\* a variant of Confirmed that takes a dismissed prompt for consent
ConfirmedUnlessNo(confirmation) == confirmation # "No"

\* easydeploy.remove: the negation of `if (confirmation !== 'Yes') return`
Confirmed(confirmation) == confirmation = "Yes"

\* easydeploy.remove once the confirmation prompt is answered: on 'Yes' it
\* reads the API key again, and sends the DELETE for lastDeploymentId as it
\* is now
RemoveAnswer(t, confirmation) ==
    /\ t.op = "remove" /\ t.pc = "confirm"
    /\ tasks' = IF Confirmed(confirmation) /\ settingsKey # "undefined"
                THEN Swap(t, [t EXCEPT !.pc = "sent", !.id = lastDeploymentId])
                ELSE Take(t)
    /\ output' = IF Confirmed(confirmation) /\ settingsKey = "undefined"
                 THEN <<"Error: API key not found">>
                 ELSE output
    /\ UNCHANGED <<srvVars, extVars, widgetVars, lastDeploymentId, settingsKey>>

\* the user empties the setting easydeploy.apiKey, which every command reads
\* anew
ClearSetting ==
    /\ settingsKey # "undefined"
    /\ settingsKey' = "undefined"
    /\ UNCHANGED <<srvVars, extVars, widgetVars, lastDeploymentId, output, tasks>>

\* easydeploy.remove resumed after `await client.remove(lastDeploymentId)`
RemoveDone(t, failed) ==
    /\ t.op = "remove"
    /\ Returned(t, failed)
    /\ lastDeploymentId' = RemoveCache(lastDeploymentId, ClientRemove(t, failed))
    /\ output' = RemoveLine(ClientRemove(t, failed))
    /\ tasks' = Take(t)
    /\ UNCHANGED <<srvVars, extVars, widgetVars, settingsKey>>

\* ------------------------------------------------------ specifications
Init ==
    /\ srv = <<>>
    /\ srvStatus = [id \in Ids |-> {S_pending}]
    /\ nextId = 1
    /\ _deployments = <<>>
    /\ storedKey \in {"undefined", "key"}
    /\ _apiKey = storedKey
    /\ _isLoggedIn = (storedKey # "undefined")
    /\ _client = storedKey
    /\ view = <<>>
    /\ timers = 0
    /\ notice = <<"none">>
    /\ output = <<"none">>
    /\ InitExt
    /\ lastDeploymentId = NoId
    /\ settingsKey \in {"undefined", "key"}
    /\ tasks = IF storedKey # "undefined"
               THEN SetToBag({Task("list", "sent", NoId)})
               ELSE EmptyBag

Pending == BagToSet(tasks)

TrackNext ==
    \/ MsgRefresh
    \/ TimerFires
    \/ \E f \in ConfigFiles : MsgDeploy(f)
    \/ \E x \in Ids : MsgRedeploy(x)
    \/ \E t \in Pending, failed \in BOOLEAN :
          \/ ListDone(t, failed)
          \/ WDeployDone(t, failed)
          \/ WRedeployDone(t, failed)
    \/ \E t \in Pending, body \in ListBodies : SrvList(t, body)
    \/ \E id \in Ids, s \in TerminalStatuses : SrvProgress(id, s)
    \/ \E t \in Pending : SrvCreate(t)

SessionNext ==
    \/ \E k \in {"", "key"} : MsgLogin(k)
    \/ MsgLogout
    \/ \E t \in Pending, failed \in BOOLEAN : LoginDone(t, failed)
    \/ ViewStateChanged
    \/ \E t \in Pending, failed \in BOOLEAN : UserDone(t, failed)
    \/ \E t \in Pending, ok \in BOOLEAN : SrvUser(t, ok)

CmdNext ==
    \/ \E f \in ConfigFiles : CmdDeploy(f)
    \/ CmdStatus
    \/ CmdRemove
    \/ \E t \in Pending, entered \in BOOLEAN, f \in ConfigFiles :
          KeyPromptDone(t, entered, f)
    \/ \E t \in Pending, c \in Answers : RemoveAnswer(t, c)
    \/ \E t \in Pending, failed \in BOOLEAN :
          \/ CDeployDone(t, failed)
          \/ StatusDone(t, failed)
          \/ CListDone(t, failed)
          \/ RemoveDone(t, failed)
    \/ \E t \in Pending : SrvStatus(t) \/ SrvRemove(t)
    \/ \E jobId \in Ids \cup {NoId} : CmdLogs(jobId)
    \/ \E t \in Pending, entered \in BOOLEAN : LogsKeyPromptDone(t, entered)
    \/ \E t \in Pending, failed \in BOOLEAN : LogsDone(t, failed)
    \/ \E t \in Pending : SrvLogs(t)
    \/ CmdTestConnection
    \/ \E t \in Pending, entered \in BOOLEAN : HealthKeyPromptDone(t, entered)
    \/ \E t \in Pending, outcome \in Outcomes : HealthDone(t, outcome)
    \/ \E t \in Pending : SrvHealth(t)

Next == TrackNext \/ SessionNext \/ CmdNext

Spec == Init /\ [][Next]_vars

\* the dashboard alone
SpecTrack == Init /\ [][TrackNext]_vars

\* the dashboard alone, where a pending timer fires in the end (setTimeout)
SpecPoll == Init /\ [][TrackNext]_vars /\ WF_vars(TimerFires)

\* the deploy command beside the dashboard
DeployNext ==
    \/ TrackNext
    \/ \E f \in ConfigFiles : CmdDeploy(f)
    \/ \E t \in Pending, entered \in BOOLEAN, f \in ConfigFiles :
          KeyPromptDone(t, entered, f)
    \/ \E t \in Pending, failed \in BOOLEAN : CDeployDone(t, failed)

SpecDeploy == Init /\ [][DeployNext]_vars

\* the commands alone: the dashboard is not logged in
InitCmd == Init /\ storedKey = "undefined"

SpecCmd ==
    InitCmd /\ [][\/ CmdNext
                   \/ \E t \in Pending :
                         \/ \E body \in ListBodies : SrvList(t, body)
                         \/ SrvCreate(t)]_vars

\* a request's timeout expires before any response: axios rejects with an
\* error that has a request and no response.  Only testConnection's request
\* carries a timeout
TimeoutExpires(t) ==
    /\ t.pc = "sent"
    /\ Timeout(t.op) # {}
    /\ HealthDone(t, NoResponse)

\* the commands against a server that never answers, on a network that
\* reports no error: a request ends only when its timeout expires, which it
\* does when it has one
SilentNext ==
    \/ \E f \in ConfigFiles : CmdDeploy(f)
    \/ CmdStatus
    \/ \E jobId \in Ids \cup {NoId} : CmdLogs(jobId)
    \/ CmdTestConnection
    \/ \E t \in Pending, entered \in BOOLEAN, f \in ConfigFiles :
          KeyPromptDone(t, entered, f)
    \/ \E t \in Pending, entered \in BOOLEAN : LogsKeyPromptDone(t, entered)
    \/ \E t \in Pending, entered \in BOOLEAN : HealthKeyPromptDone(t, entered)
    \/ \E t \in Pending : TimeoutExpires(t)

SpecSilent ==
    InitCmd /\ [][SilentNext]_vars /\ WF_vars(\E t \in Pending : TimeoutExpires(t))

\* the commands and the sidebar provider, where the user may empty the
\* setting again; the server answers the deploy command only, every other
\* request fails on the network
KeyNext ==
    \/ \E f \in ConfigFiles : CmdDeploy(f)
    \/ CmdStatus
    \/ CmdRemove
    \/ \E jobId \in Ids \cup {NoId} : CmdLogs(jobId)
    \/ CmdTestConnection
    \/ TreeAsks
    \/ ClearSetting
    \/ \E t \in Pending, entered \in BOOLEAN, f \in ConfigFiles :
          KeyPromptDone(t, entered, f)
    \/ \E t \in Pending, entered \in BOOLEAN : LogsKeyPromptDone(t, entered)
    \/ \E t \in Pending, entered \in BOOLEAN : HealthKeyPromptDone(t, entered)
    \/ \E t \in Pending, c \in Answers : RemoveAnswer(t, c)
    \/ \E t \in Pending, failed \in BOOLEAN : CDeployDone(t, failed)
    \/ \E t \in Pending : SrvCreate(t)
    \/ \E t \in Pending :
          \/ StatusDone(t, TRUE)
          \/ CListDone(t, TRUE)
          \/ RemoveDone(t, TRUE)
          \/ LogsDone(t, TRUE)
          \/ TreeListDone(t, TRUE)
          \/ HealthDone(t, NoResponse)

SpecKey == InitCmd /\ [][KeyNext]_vars

\* the sidebar provider beside the deploy command
TreeNext ==
    \/ TreeAsks
    \/ IntervalFires
    \/ ProviderDispose
    \/ \E t \in Pending, failed \in BOOLEAN : TreeListDone(t, failed)
    \/ \E f \in ConfigFiles : CmdDeploy(f)
    \/ \E t \in Pending, entered \in BOOLEAN, f \in ConfigFiles :
          KeyPromptDone(t, entered, f)
    \/ \E t \in Pending, failed \in BOOLEAN : CDeployDone(t, failed)
    \/ \E t \in Pending :
          \/ \E body \in ListBodies : SrvList(t, body)
          \/ SrvCreate(t)

SpecTree == InitCmd /\ [][TreeNext]_vars

\* login, logout and the user info beside the dashboard's refresh and deploy
LoginNext ==
    \/ SessionNext
    \/ MsgRefresh
    \/ TimerFires
    \/ MsgDeploy(WidgetConfig)
    \/ \E t \in Pending, failed \in BOOLEAN :
          \/ ListDone(t, failed)
          \/ WDeployDone(t, failed)
    \/ \E t \in Pending :
          \/ \E body \in ListBodies : SrvList(t, body)
          \/ SrvCreate(t)

SpecLogin == Init /\ [][LoginNext]_vars

\* the dashboard with its panel opened and closed
PanelNext ==
    \/ CreateOrShow
    \/ Show
    \/ PanelClosed
    \/ OrphanClosed
    \/ MsgRefresh
    \/ TimerFires
    \/ MsgDeploy(WidgetConfig)
    \/ \E t \in Pending, failed \in BOOLEAN :
          \/ ListDone(t, failed)
          \/ WDeployDone(t, failed)
    \/ \E t \in Pending :
          \/ \E body \in ListBodies : SrvList(t, body)
          \/ SrvCreate(t)

SpecPanel == Init /\ [][PanelNext]_vars

\* the dashboard with login and logout
SpecSession == Init /\ [][TrackNext \/ SessionNext]_vars

\* list responses of any body for the dashboard's refresh, with deployments
\* made from the dashboard
ShapesNext ==
    \/ MsgRefresh
    \/ TimerFires
    \/ \E f \in {WidgetConfig} : MsgDeploy(f)
    \/ \E t \in Pending, failed \in BOOLEAN :
          \/ ListDone(t, failed)
          \/ WDeployDone(t, failed)
    \/ \E t \in Pending :
          \/ \E body \in ListBodies \cup OddBodies : SrvList(t, body)
          \/ SrvCreate(t)

SpecShapes == Init /\ [][ShapesNext]_vars

\* -------------------------------------------- status classification
\* the words of mapStatus's case labels, by what they return
CompletedWords == {S_success, S_completed, S_done}
FailedWords == {S_failed, S_error}
ProgressWords == {S_running, S_in_progress, S_pending}

\* the spellings of the word w in every mix of capitals and small letters
Variants(w) ==
    {[i \in 1..Len(w) |-> IF i \in U /\ w[i] \in 97..122 THEN w[i] - 32 ELSE w[i]] :
        U \in SUBSET (1..Len(w))}

\* status strings that are none of the words: "", "queued", "succes",
\* "success ", "failure", "ok", "complete", "errors", and the characters next
\* to the capitals and to the small letters: "@", "[", "`", "{", "d@ne"
OtherStrings ==
    {<<>>, S_queued, <<115,117,99,99,101,115>>, <<115,117,99,99,101,115,115,32>>,
     <<102,97,105,108,117,114,101>>, <<111,107>>,
     <<99,111,109,112,108,101,116,101>>, <<101,114,114,111,114,115>>,
     <<64>>, <<91>>, <<96>>, <<123>>, <<100,64,110,101>>}

\* what the status field of a list element may hold: nothing, or a string
StatusInputs ==
    {{}} \cup {{s} : s \in OtherStrings
                      \cup UNION {Variants(w) :
                                    w \in CompletedWords \cup FailedWords \cup ProgressWords}}

\* the dashboard is logged in and two polls have been answered alike, with
\* one deployment whose status is any of StatusInputs
InitClassify ==
    \E raw \in StatusInputs :
        /\ srv = <<1>>
        /\ srvStatus = [id \in Ids |-> raw]
        /\ nextId = 2
        /\ _deployments = <<>>
        /\ storedKey = "key"
        /\ _apiKey = "key"
        /\ _isLoggedIn = TRUE
        /\ _client = "key"
        /\ view = <<>>
        /\ timers = 0
        /\ notice = <<"none">>
        /\ lastDeploymentId = NoId
        /\ settingsKey = "undefined"
        /\ output = <<"none">>
        /\ InitExt
        /\ tasks = LET t == [Task("list", "resp", NoId) EXCEPT
                                 !.data = Wrapped(<<Summary(1, raw)>>)]
                   IN SetToBag({t}) (+) SetToBag({t})

\* refreshDeployments applies the responses
SpecClassify ==
    InitClassify /\ [][\E t \in Pending, failed \in BOOLEAN : ListDone(t, failed)]_vars

\* two refreshes of the logged-in dashboard are in flight (the one of
\* _initializePanel and one of a 'refresh' message), with two deployments on
\* the server; the field ask numbers them in the order of issue
InitOverlap ==
    /\ srv = <<2, 1>>
    /\ srvStatus = [id \in Ids |-> {S_pending}]
    /\ nextId = 3
    /\ _deployments = <<>>
    /\ storedKey = "key"
    /\ _apiKey = "key"
    /\ _isLoggedIn = TRUE
    /\ _client = "key"
    /\ view = <<>>
    /\ timers = 0
    /\ notice = <<"none">>
    /\ lastDeploymentId = NoId
    /\ settingsKey = "undefined"
    /\ output = <<"none">>
    /\ InitExt
    /\ tasks = SetToBag({[Task("list", "sent", NoId) EXCEPT !.ask = 1],
                         [Task("list", "sent", NoId) EXCEPT !.ask = 2]})

\* the server answers the two refreshes while the deployments end, and
\* refreshDeployments applies the responses in the order they arrive
OverlapNext ==
    \/ \E t \in Pending, body \in ListBodies : SrvList(t, body)
    \/ \E id \in Ids, status \in TerminalStatuses : SrvProgress(id, status)
    \/ \E t \in Pending, failed \in BOOLEAN : ListDone(t, failed)

SpecOverlap == InitOverlap /\ [][OverlapNext]_vars

\* -------------------------------------------------------------- claims
\* the number of calls in flight among those of the set S
NumCalls(S) == BagCardinality([t \in S |-> tasks[t]])

\* the indices of the records the list deps holds for the id x
Records(deps, x) == {i \in DOMAIN deps : deps[i].id = x}

\* C1: the tracked list _deployments never holds two records with the same
\* id, whatever the order of deploy, redeploy and refresh responses.
C1_NoDuplicateIds ==
    \A i, j \in DOMAIN _deployments :
        _deployments[i].id = _deployments[j].id => i = j

\* C2: applying a list response never removes a tracked record: every id
\* tracked before refreshDeployments applies the response is tracked after.
C2_RefreshRetains ==
    [][\A t \in Pending :
          ListDone(t, FALSE) => SeqIds(_deployments) \subseteq SeqIds(_deployments')]_vars

\* C3: when the deploy call of startNewDeployment succeeds with server id d,
\* in that same step a record with id d and status in_progress is put at the
\* front of the tracked list, before the rest of it, and the list is sent to
\* the view.
C3_DeployInsertsAtFront ==
    [][\A t \in Pending :
          WDeployDone(t, FALSE) =>
             /\ t.rid \in Ids
             /\ Len(_deployments') = Len(_deployments) + 1
             /\ _deployments'[1].id = t.rid
             /\ _deployments'[1].status = "in_progress"
             /\ Tail(_deployments') = _deployments
             /\ view' = _deployments']_vars

\* C3 happens: a deployment was started from the dashboard while another
\* record was tracked; the new record is first, in progress, the view has
\* the list, and the delayed refresh has not run yet.
C3_Witness ==
    /\ notice = <<"Deployment started: ">>
    /\ Len(_deployments) = 2
    /\ _deployments[1].name = "new"
    /\ _deployments[1].status = "in_progress"
    /\ _deployments[1].id \in Range(srv)
    /\ _deployments[2].id # _deployments[1].id
    /\ view = _deployments
    /\ timers > 0

\* the tracked state C4 speaks of, with what the dashboard shows and schedules
TrackedState == <<_deployments, view, timers, lastDeploymentId>>

\* C4: when a deploy or redeploy call fails (no response, an error response,
\* or a configuration file that does not load), the step that handles the
\* failure inserts no record and leaves the view, the timers and
\* lastDeploymentId as they were.
C4_FailureChangesNothing ==
    [][/\ \A t \in Pending :
             (WDeployDone(t, TRUE) \/ WRedeployDone(t, TRUE) \/ CDeployDone(t, TRUE))
                => UNCHANGED TrackedState
       /\ \A f \in ConfigFiles :
             (/\ f.kind # "missing" /\ ~LoadsConfig(f)
              /\ \/ MsgDeploy(f)
                 \/ CmdDeploy(f)
                 \/ \E t \in Pending : t.op = "cdeploy" /\ KeyPromptDone(t, TRUE, f))
                => UNCHANGED TrackedState]_vars

\* C4 happens: a deploy from the dashboard and a deploy command have both
\* failed after earlier deployments, which are still tracked and cached.
C4_Witness ==
    /\ notice = <<"Deployment failed: ">>
    /\ output = <<"Deployment failed">>
    /\ lastDeploymentId # NoId
    /\ _deployments # <<>>
    /\ view = _deployments

\* the DELETE requests on their way to the server
RemoveRequests == NumCalls({t \in Pending : t.op = "remove" /\ t.pc = "sent"})

\* C5: a remove request is sent only by the step in which the confirmation
\* prompt of that remove command is answered 'Yes'; any other answer sends
\* nothing and leaves lastDeploymentId and the tracked list unchanged.
C5_RemoveOnlyAfterYes ==
    [][/\ RemoveRequests' > RemoveRequests =>
             \E t \in Pending :
                /\ t.pc = "confirm"
                /\ RemoveAnswer(t, "Yes")
                /\ [t EXCEPT !.pc = "sent", !.id = lastDeploymentId] \in BagToSet(tasks')
       /\ \A t \in Pending, c \in Answers \ {"Yes"} :
             RemoveAnswer(t, c) =>
                /\ RemoveRequests' = RemoveRequests
                /\ UNCHANGED <<lastDeploymentId, _deployments>>]_vars

\* C5 happens: after 'Yes', the DELETE for the deployment the prompt named is
\* on its way.
C5_Witness ==
    \E t \in Pending :
        /\ t.op = "remove" /\ t.pc = "sent"
        /\ t.ask # NoId
        /\ t.id = t.ask

\* the ids that leave the tracked list or the cache in a step
Dropped ==
    (SeqIds(_deployments) \ SeqIds(_deployments'))
        \cup (IF lastDeploymentId # NoId /\ lastDeploymentId' # lastDeploymentId
              THEN {lastDeploymentId} ELSE {})

\* C6: a deployment leaves the tracked list or lastDeploymentId only in the
\* step that handles the success of a remove call for that id.
C6_LeavesOnlyAfterRemove ==
    [][\A x \in Dropped :
          \E t \in Pending : t.op = "remove" /\ t.id = x /\ RemoveDone(t, FALSE)]_vars

\* C7: when the redeploy of X succeeds with id Y, a record with id Y and
\* status in_progress is put at the front of the tracked list, Y is not X,
\* and every record that was tracked, X's among them, stays as it was.
C7_RedeployInsertsNew ==
    [][\A t \in Pending :
          WRedeployDone(t, FALSE) =>
             /\ t.rid # t.id
             /\ _deployments'[1].id = t.rid
             /\ _deployments'[1].status = "in_progress"
             /\ Tail(_deployments') = _deployments
             /\ view' = _deployments']_vars

\* C7 happens: a redeployment was started for a completed deployment; the
\* new record is first and in progress, the old one is still completed.
C7_Witness ==
    /\ notice = <<"Redeployment started: ">>
    /\ Len(_deployments) = 2
    /\ _deployments[1].name = "redeployment"
    /\ _deployments[1].status = "in_progress"
    /\ _deployments[2].id # _deployments[1].id
    /\ _deployments[2].status = "completed"

\* C8: a POST /deployments is on its way only for a configuration that has
\* name, platform and runtime.  The body takes name and platform from the
\* configuration (runtime is not read), so it has them if the
\* configuration does.
C8_DeployRequiresFields ==
    \A t \in Pending :
        (t.op \in {"wdeploy", "cdeploy"} /\ t.pc = "sent")
            => {"name", "platform"} \subseteq t.cfg

\* C9: at most one listDeployments call of the dashboard is in flight.
C9_OnePollInFlight ==
    NumCalls({t \in Pending : t.op = "list"}) <= 1

\* C10: once a tracked record is completed or failed, applying a list
\* response leaves the records of that id with that status.
C10_StatusMonotonic ==
    [][\A t \in Pending :
          ListDone(t, FALSE) =>
             \A x \in SeqIds(_deployments) :
                \A i \in Records(_deployments, x), j \in Records(_deployments', x) :
                   _deployments[i].status \in {"completed", "failed"}
                      => _deployments'[j].status = _deployments[i].status]_vars

\* the deployments of a list response in one of the two formats
Items(body) == IF body.kind = "array" THEN body.items ELSE body.deployments.items

\* the string s spells the word w, in whatever case
SameWord(s, w) ==
    /\ Len(s) = Len(w)
    /\ \A i \in 1..Len(w) : s[i] = w[i] \/ (w[i] \in 97..122 /\ s[i] = w[i] - 32)

\* the raw status spells one of the words of the set W
Spells(raw, W) == \E s \in raw, w \in W : SameWord(s, w)

\* C11: for a raw status that is not one of the recognized words (the empty
\* string and a missing status included) mapStatus returns in_progress, and
\* every record refreshDeployments builds has a status among completed,
\* in_progress and failed.
C11_UnknownIsInProgress ==
    [][\A t \in Pending :
          ListDone(t, FALSE) =>
             /\ Len(_deployments') = Len(Items(t.data))
             /\ \A i \in DOMAIN Items(t.data) :
                   /\ _deployments'[i].status \in {"completed", "in_progress", "failed"}
                   /\ ~Spells(Items(t.data)[i].status, CompletedWords \cup FailedWords)
                         => _deployments'[i].status = "in_progress"]_vars

\* C11 happens: a response with the status "queued" was applied (the same
\* response of the other poll is still waiting) and the record is in progress.
C11_Witness ==
    /\ _deployments # <<>>
    /\ _deployments[1].status = "in_progress"
    /\ \E t \in Pending : t.pc = "resp" /\ Items(t.data)[1].status = {S_queued}

\* C12: in whatever case it is spelled, success, completed and done map to
\* completed, failed and error to failed, running, in_progress and pending
\* to in_progress; and the same response applied again gives the same list.
C12_CaseInsensitive ==
    [][\A t \in Pending :
          ListDone(t, FALSE) =>
             /\ \A i \in DOMAIN Items(t.data) :
                   LET raw == Items(t.data)[i].status
                       out == _deployments'[i].status
                   IN /\ Spells(raw, CompletedWords) => out = "completed"
                      /\ Spells(raw, FailedWords) => out = "failed"
                      /\ Spells(raw, ProgressWords) => out = "in_progress"
             /\ _deployments # <<>> => _deployments' = _deployments]_vars

\* C12 happens: a response with the status "SUCCESS" was applied and the
\* record is completed.
C12_Witness ==
    /\ _deployments # <<>>
    /\ _deployments[1].status = "completed"
    /\ \E t \in Pending : t.pc = "resp" /\ Items(t.data)[1].status = {S_SUCCESS}

\* C13: listDeployments returns the same list for {deployments: [...]} and
\* for the bare array of the same deployments, the empty list included: the
\* list refreshDeployments applies is the mapping of the deployments of the
\* response in either format.
C13_SameListBothFormats ==
    [][\A t \in Pending :
          (ListDone(t, FALSE) /\ t.data \in {Wrapped(Items(t.data)), Bare(Items(t.data))})
             => /\ ListDeployments(Wrapped(Items(t.data))) = Ok(Array(Items(t.data)))
                /\ ListDeployments(Bare(Items(t.data))) = Ok(Array(Items(t.data)))
                /\ _deployments' = Reconcile(_deployments, Items(t.data))]_vars

\* C13 happens: a response in the wrapped format was applied while the
\* response of another poll, a bare array of the same deployments, waits.
C13_Witness ==
    /\ _deployments # <<>>
    /\ \A i \in DOMAIN _deployments : _deployments[i].name = "server"
    /\ \E t \in Pending :
          /\ t.op = "list" /\ t.pc = "resp"
          /\ t.data.kind = "array"
          /\ _deployments = Reconcile(_deployments, t.data.items)

\* C14: for a successful list response whose body has neither format,
\* listDeployments returns an empty list and does not throw.
C14_OddBodyGivesEmptyList ==
    [][\A t \in Pending :
          (ListDone(t, FALSE) /\ t.data \in OddBodies)
             => ListDeployments(t.data) = Ok(Array(<<>>))]_vars

\* what a failure tells about the request: the server refused the
\* credentials, it answered with another error, or nothing came back
Class(e) ==
    CASE e.kind = "response" /\ e.status \in {"401", "403"} -> "unauthorized"
      [] e.kind = "response" -> "error response"
      [] OTHER -> "no response"

\* the status command's getStatus call fails with e
StatusFails(t, e) ==
    StatusDone(t, TRUE) /\ output' = StatusError(GetStatusError(e))

LogsRequests == NumCalls({t \in Pending : t.op = "logs" /\ t.pc \in {"sent", "resp"}})

\* the logs command, given jobId, gets past its API key check
LogsProceeds(jobId) ==
    \/ settingsKey # "undefined" /\ CmdLogs(jobId)
    \/ \E t \in Pending :
          t.pc = "logsKeyPrompt" /\ t.id = jobId /\ LogsKeyPromptDone(t, TRUE)

\* C16: the logs command asks for the logs of the id it is given, or of
\* lastDeploymentId when it is given none; when there is neither it writes
\* that no deployment is available and sends no getLogs request.
C16_LogsTarget ==
    [][/\ \A jobId \in Ids \cup {NoId} :
             LogsProceeds(jobId) =>
                LET targetId == IF jobId # NoId THEN jobId ELSE lastDeploymentId
                    request == Task("logs", "sent", targetId)
                IN IF targetId = NoId
                   THEN LogsRequests' = LogsRequests /\ output' = NoTargetLine
                   ELSE /\ LogsRequests' = LogsRequests + 1
                        /\ CopiesIn(request, tasks') = CopiesIn(request, tasks) + 1
       /\ LogsRequests' > LogsRequests =>
             \E jobId \in Ids \cup {NoId} : LogsProceeds(jobId)]_vars

\* C16 happens: the logs command ran with no id given and none cached; it
\* wrote that no deployment is available and no request is in flight.
C16_Witness ==
    /\ output = NoTargetLine
    /\ lastDeploymentId = NoId
    /\ LogsRequests = 0

\* the getStatus and listDeployments requests of the status command in flight
StatusRequests ==
    NumCalls({t \in Pending : t.op \in {"status", "clist"} /\ t.pc \in {"sent", "resp"}})

\* the status command gets past its API key check
StatusProceeds ==
    \/ settingsKey # "undefined" /\ CmdStatus
    \/ \E t \in Pending, f \in ConfigFiles :
          t.op = "status" /\ KeyPromptDone(t, TRUE, f)

\* C17: the status command calls getStatus for lastDeploymentId when that is
\* set and listDeployments otherwise; when the list call returns a non-empty
\* list the first listed id becomes lastDeploymentId, and when it returns an
\* empty list or fails the command leaves lastDeploymentId as it is.
C17_StatusTarget ==
    [][/\ StatusProceeds =>
             LET request == IF lastDeploymentId # NoId
                            THEN Task("status", "sent", lastDeploymentId)
                            ELSE Task("clist", "sent", NoId)
             IN /\ StatusRequests' = StatusRequests + 1
                /\ CopiesIn(request, tasks') = CopiesIn(request, tasks) + 1
       /\ \A t \in Pending, failed \in BOOLEAN :
             CListDone(t, failed) =>
                IF ~failed /\ Len(Items(t.data)) > 0
                THEN lastDeploymentId' = Items(t.data)[1].id
                ELSE lastDeploymentId' = lastDeploymentId]_vars

\* C17 happens: the status command listed two deployments and cached the
\* first one's id.
C17_Witness ==
    /\ output = <<"Recent deployments:">>
    /\ Len(srv) = 2
    /\ lastDeploymentId = srv[1]

\* C18: testConnection never throws: whether the health request ends with a
\* 2xx response, an error response, no response or a request that could not
\* be set up, it returns a result with a success flag and a message, and the
\* flag is true exactly when the request got a 2xx response.
C18_TestConnectionTotal ==
    [][\A t \in Pending, outcome \in Outcomes :
          HealthDone(t, outcome) =>
             /\ ~TestConnection(outcome).throws
             /\ TestConnection(outcome).success \in BOOLEAN
             /\ Len(TestConnection(outcome).message) > 0
             /\ TestConnection(outcome).success <=> (outcome = OkResponse /\ t.pc = "resp")
             /\ output'[1] = IF outcome = OkResponse
                             THEN "Connection successful: "
                             ELSE "Connection failed: "]_vars

\* C18 happens: the health request could not be set up, and the command
\* reported the failure testConnection returned.
C18_Witness ==
    output = <<"Connection failed: ", "Connection error: ", "Invalid URL">>

\* the requests that await the server
AwaitingServer == NumCalls({t \in Pending : t.pc = "sent"})

\* C19: every API client call returns to its caller even when the server
\* never responds: once no further request is sent, eventually no request
\* awaits the server any more.
C19_EveryCallReturns ==
    <>[][AwaitingServer' <= AwaitingServer]_vars => <>[](AwaitingServer = 0)

\* the listDeployments requests of the dashboard that await the server
ListRequests == NumCalls({t \in Pending : t.op = "list" /\ t.pc = "sent"})

C21_TimerLifetime ==
    [][/\ refreshInterval' = "active" => refreshInterval = "active"
       /\ ProviderDispose => refreshInterval' = "cleared"
       /\ IntervalFires => refreshInterval = "active"]_vars

\* C21 happens: the provider is disposed with a timer-driven request still
\* in flight, and the timer is cleared.
C21_Witness ==
    /\ refreshInterval = "cleared"
    /\ \E t \in Pending : t.op = "tlist"

\* the messages with which the dashboard reports a failed call
FailureNotices ==
    {<<"Failed to fetch deployments: ">>, <<"Deployment failed: ">>,
     <<"Redeployment failed: ">>, <<"Login failed: ">>}

\* C22: every failure of an API call is reported: when a call of the
\* dashboard fails (listDeployments, deploy, the login's getUserInfo,
\* fetchUserInfo's getUserInfo), the handler that awaited it shows a message
\* for the failure.
C22_FailuresReported ==
    [][\A t \in Pending :
          \/ ListDone(t, TRUE)
          \/ WDeployDone(t, TRUE)
          \/ LoginDone(t, TRUE)
          \/ UserDone(t, TRUE)
          => notice' \in FailureNotices]_vars

\* C23: the id a remove request carries is the id its confirmation prompt
\* showed, whatever happens to lastDeploymentId while the prompt is open.
C23_RemovesWhatWasShown ==
    \A t \in Pending :
        t.op = "remove" /\ t.pc \in {"sent", "resp"} => t.id = t.ask

\* C24: while the dashboard is logged out its tracked list and its user info
\* are empty: a request sent before the logout that returns after it, or a
\* delayed refresh that fires after it, fills neither.
C24_EmptyWhileLoggedOut ==
    ~_isLoggedIn => _deployments = <<>> /\ _userInfo = "null"

\* C25: the login state of the dashboard is consistent in every state:
\* _isLoggedIn holds exactly when _apiKey is set and exactly when _client is
\* set.
C25_LoginStateConsistent ==
    /\ _isLoggedIn <=> _apiKey # "undefined"
    /\ _isLoggedIn <=> _client # "undefined"

\* C25 happens: a logout has overlapped a login that is still in flight.
C25_Witness ==
    /\ ~_isLoggedIn
    /\ notice = <<"Successfully logged out">>
    /\ \E t \in Pending : t.op = "login"

\* C26: there is at most one dashboard panel at any time, and a panel that
\* is open is the one registered as currentPanel.
C26_OnePanel ==
    /\ panels <= 1
    /\ panels = 1 => currentPanel = "widget"

\* the messages of handlers that used the disposed panel
PostErrors ==
    {Disposed(prefix) : prefix \in {"Failed to fetch deployments: ", "Deployment error: ",
                                     "Redeployment error: ", "Login failed: "}}

\* C27: after the dashboard panel is disposed the widget does not use it: no
\* handler that runs after the disposal (a delayed refresh, a request that
\* returns) ends with the error of posting to the disposed panel.
C27_NoPostAfterDispose == notice \notin PostErrors

\* C28: of two overlapping refreshes the tracked list keeps the result of the
\* one issued last: when the response of the newer request has been applied,
\* the response of the older one, arriving after it, does not replace the
\* list.
C28_NewestRefreshWins ==
    [][\A t \in Pending :
          /\ t.ask = 1
          /\ \A u \in Pending : u.ask # 2
          /\ notice = <<"none">>
          /\ ListDone(t, FALSE)
          => UNCHANGED _deployments]_vars

\* the steps of a command, or of getChildren, that call the API or ask for
\* the confirmation of a removal
Requests(bag) == {t \in BagToSet(bag) : t.pc \in {"sent", "confirm"}}

\* C29: nothing calls the API without a key: in a step that begins and ends
\* with the setting empty no request is sent and no confirmation prompt is
\* opened (except by the provider's client, which was made with a key), so a
\* command whose key prompt is dismissed stops there; and getChildren without
\* client and setting returns the item 'API key not set'.
C29_NoRequestWithoutKey ==
    [][settingsKey = "undefined" /\ settingsKey' = "undefined" =>
          /\ \A t \in Requests(tasks') :
                CopiesIn(t, tasks') > CopiesIn(t, tasks)
                => t.op = "tlist" /\ client # "undefined"
          /\ TreeAsks /\ client = "undefined"
             => children' = Children("API key not set", <<>>)]_vars

\* C29 witness: the tree showed 'API key not set'; later a deployment was
\* made with a key, the setting was emptied, and the key prompt of remove was
\* dismissed.
C29_Witness ==
    /\ settingsKey = "undefined"
    /\ lastDeploymentId # NoId
    /\ client = "undefined"
    /\ children = Children("API key not set", <<>>)
    /\ output = <<"Operation cancelled: No API key provided">>
    /\ Requests(tasks) = {}

\* C30: a login that fails leaves the session as it was: with an empty key
\* (which also sends no request), when getUserInfo throws, and when the
\* response carries no user_id, the step changes none of _apiKey,
\* _isLoggedIn, _client, _userInfo, the tracked deployments and the
\* persisted key.
C30_FailedLoginKeepsState ==
    [][(\/ MsgLogin("")
        \/ \E t \in Pending : \/ LoginDone(t, TRUE)
                               \/ (t.rid = NoId /\ LoginDone(t, FALSE)))
       => /\ UNCHANGED <<_apiKey, _isLoggedIn, _client, _userInfo,
                         _deployments, storedKey>>
          /\ (MsgLogin("") => UNCHANGED tasks)]_vars

\* C30 witness: a login was refused for a response without user_id while the
\* dashboard was logged in with deployments on its list, and it still is.
C30_Witness ==
    /\ notice = <<"Invalid API key or authentication failed">>
    /\ _isLoggedIn
    /\ _apiKey = "key" /\ _client = "key" /\ storedKey = "key"
    /\ _deployments # <<>>
====
